---- MODULE Spec2Model ----
(***************************************************************************)
(* Model of chk (src/chk.go), the context-aware pipeline: main validates   *)
(* and resolves the Target, launches one lookupIP goroutine per selected   *)
(* Address, each running a reverse lookup and a metadata fetch as two      *)
(* goroutines that write the fields of one shared Result without a lock,   *)
(* a closer goroutine closing resultChan after wg.Wait, a collector        *)
(* goroutine appending to results, a signal goroutine cancelling mainCtx,  *)
(* and main's select loop over mainCtx.Done, done and the ticker.  The      *)
(* simplified variant of lines 253-475 is modelled over the same           *)
(* variables.                                                              *)
(*                                                                         *)
(* An error value is the sequence of its message parts, nil being << >>;   *)
(* a *IPInfo is a sequence of at most one record, nil being << >>; an      *)
(* Address is its index in ips together with its family.                   *)
(***************************************************************************)
EXTENDS Integers, Sequences, FiniteSets, TLC

\* Largest number of Addresses one name resolution returns.
MaxIPs == 1

\* make(chan Result, 10)
ChanCap == 10

\* The Target, by what net.ParseIP makes of it.
Targets == {"ip4", "ip6", "name"}

Nil == << >>

VARIABLES
    target,     \* CLI.Target
    IPv4,       \* CLI.IPv4
    IPv6,       \* CLI.IPv6
    pcMain,     \* position of main
    exitCode,   \* process exit status, -1 while the process runs
    exitWhy,    \* the path main left by
    ips,        \* ips: sequence of families, TRUE = IPv6
    idx,        \* position of the range loop over ips
    totalIPs,   \* totalIPs
    wg,         \* counter of wg
    pcEnr,      \* position of each lookupIP goroutine
    result,     \* the Result each lookupIP builds
    pcPtr,      \* position of the reverse-lookup goroutine
    ptrRet,     \* (names, err) of net.LookupAddr
    pcInfo,     \* position of the metadata goroutine
    resp,       \* what httpClient.Do met
    infoRet,    \* (ipInfo, err) of getIPInfo
    seenErr,    \* result.Error as read at the nil test of line 117
    resultChan, \* buffered contents of resultChan
    chanClosed, \* resultChan closed
    pcCloser,   \* position of the goroutine of lines 217-220
    pcColl,     \* position of the goroutine of lines 223-228
    results,    \* results
    doneClosed, \* done closed
    processed,  \* processed
    rendered,   \* Results handed to printResult, in order
    sigPending, \* a signal is buffered in sigChan
    pcSig,      \* position of the goroutine of lines 183-187
    cancelled,  \* mainCtx.Done() is closed
    sentAtCancel, \* number of Results sent when the signal goroutine called
                  \* cancel(), -1 while it has not
    dnsCalls,   \* calls of net.LookupHost and net.LookupIP made so far
    errLines,   \* "Error" lines main has printed (lines 171 and 202)
    snap        \* simplified variant: results as a task read it for append

vars == <<target, IPv4, IPv6, pcMain, exitCode, exitWhy, ips, idx, totalIPs,
          wg, pcEnr, result, pcPtr, ptrRet, pcInfo, resp, infoRet, seenErr,
          resultChan, chanClosed, pcCloser, pcColl, results, doneClosed,
          processed, rendered, sigPending, pcSig, cancelled, sentAtCancel,
          dnsCalls, errLines, snap>>

cliVars  == <<target, IPv4, IPv6>>
enrVars  == <<pcEnr, result, pcPtr, ptrRet, pcInfo, resp, infoRet, seenErr>>
chanVars == <<resultChan, chanClosed, pcCloser, pcColl, results, doneClosed>>
sigVars  == <<sigPending, pcSig, cancelled, sentAtCancel>>
mainVars == <<pcMain, exitCode, exitWhy, ips, idx, totalIPs, processed,
              rendered>>
auxVars  == <<dnsCalls, errLines, snap>>

Slots == 1..MaxIPs

-----------------------------------------------------------------------------
\* Pure parts of the code.

\* net.ParseIP(CLI.Target): nil for a name, else the address (its family).
ParseIP(t) == IF t = "ip4" THEN <<FALSE>> ELSE IF t = "ip6" THEN <<TRUE>> ELSE Nil

\* validateInput(input): nil for a literal; for a name nil iff net.LookupHost
\* resolves it.
validateInput(t, hostOk) ==
    IF ParseIP(t) # Nil THEN Nil
    ELSE IF ~hostOk THEN <<"invalid domain or IP address: ", "no such host">>
    ELSE Nil

\* validateInput calling net.LookupHost whatever the input is.
HostLookupsAlways(t) == 1

\* Calls of net.LookupHost validateInput makes: none for a literal.
HostLookups(t) == IF ParseIP(t) # Nil THEN 0 ELSE 1

\* isIPv6 := ip.To4() == nil
IsIPv6(fam) == fam

\* Line 210 without its third disjunct.
SelectedNoDefault(f4, f6, isIPv6) ==
    (f4 /\ ~isIPv6) \/ (f6 /\ isIPv6)

\* The condition of line 210.
Selected(f4, f6, isIPv6) ==
    (f4 /\ ~isIPv6) \/ (f6 /\ isIPv6) \/ (~f4 /\ ~f6)

\* What net.LookupIP can answer for a name: an error (Nil) or a non-empty
\* list of addresses.
LookupIPAnswers ==
    {Nil} \cup UNION {[1..n -> BOOLEAN] : n \in 1..MaxIPs}

\* What net.LookupAddr(ip) can return; it takes no context.
LookupAddr(ip, ok) ==
    IF ok THEN [names |-> <<ip>>, err |-> Nil]
          ELSE [names |-> Nil, err |-> <<"no such host">>]

HTTPStatuses == {200, 429}
HTTPBodies == {"json", "garbage"}

\* A request that carries no context, as http.Get makes.
ResponsesNoCtx(ctxDone) ==
    {[transport |-> "Client.Timeout exceeded", status |-> 0, body |-> "none"]}
    \cup {[transport |-> "ok", status |-> s, body |-> b] :
             s \in HTTPStatuses, b \in HTTPBodies}

\* What httpClient.Do(req) can meet.  With the request's context cancelled
\* the call fails with the context's error; otherwise the transport answers
\* with some status and body, or the client's Timeout expires.
Responses(ctxDone) ==
    IF ctxDone
    THEN {[transport |-> "context canceled", status |-> 0, body |-> "none"]}
    ELSE {[transport |-> "Client.Timeout exceeded", status |-> 0, body |-> "none"]}
         \cup {[transport |-> "ok", status |-> s, body |-> b] :
                  s \in HTTPStatuses, b \in HTTPBodies}

\* getIPInfo with a test of resp.StatusCode before Decode.
getIPInfoStatusChecked(ip, r) ==
    IF r.transport # "ok" THEN [info |-> Nil, err |-> <<r.transport>>]
    ELSE IF r.status < 200 \/ r.status > 299
         THEN [info |-> Nil, err |-> <<"unexpected status">>]
    ELSE IF r.body # "json" THEN [info |-> Nil, err |-> <<"invalid character">>]
    ELSE [info |-> <<[IP |-> ip]>>, err |-> Nil]

\* getIPInfo(ctx, ip): the error of Do, else the error of Decode, else the
\* decoded record.  resp.StatusCode is never read.
getIPInfo(ip, r) ==
    IF r.transport # "ok" THEN [info |-> Nil, err |-> <<r.transport>>]
    ELSE IF r.body # "json" THEN [info |-> Nil, err |-> <<"invalid character">>]
    ELSE [info |-> <<[IP |-> ip]>>, err |-> Nil]

\* mainCtx made with the client's Timeout as its deadline.
CtxAfterFetchDeadline(ctxDone, r) ==
    ctxDone \/ r.transport = "Client.Timeout exceeded"

\* mainCtx after an HTTP call has returned: context.WithCancel has no
\* deadline, and http.Client.Timeout does not touch the context.
CtxAfterFetch(ctxDone, r) == ctxDone

\* Lines 106-110 with a failed reverse lookup also dropping the record.
PtrWriteDropsInfo(res, ret) ==
    IF ret.err # Nil
    THEN [res EXCEPT !.Error = <<"error looking up PTR records: ">> \o ret.err,
                     !.IPInfo = Nil]
    ELSE [res EXCEPT !.PTR = ret.names]

\* Lines 106-110.
PtrWrite(res, ret) ==
    IF ret.err # Nil
    THEN [res EXCEPT !.Error = <<"error looking up PTR records: ">> \o ret.err]
    ELSE [res EXCEPT !.PTR = ret.names]

\* Lines 117-121, on the value of result.Error the nil test read.
InfoErrWrite(seen, err) ==
    IF seen # Nil
    THEN seen \o <<"; ", "error fetching IP info: ">> \o err
    ELSE <<"error fetching IP info: ">> \o err

\* wgInternal.Wait() returning when one of the two goroutines is done.
WaitInternalOne(p, q) == p = "done" \/ q = "done"

\* wgInternal.Wait() returns: both goroutines of lookupIP are done.
WaitInternal(p, q) == p = "done" /\ q = "done"

\* The range ending as soon as resultChan is empty.
RangeEndsOnEmpty(ch, closed) == ch = << >>

\* for result := range resultChan ends: the channel is closed and drained.
RangeEnds(ch, closed) == ch = << >> /\ closed

\* processed = len(results) + 1
LenReadOffByOne(last, cur) == {cur + 1}

\* len(results) as main reads it at line 247 while the collector appends
\* with no synchronisation: the current length or an earlier one, never
\* one older than main has already read.
LenRead(last, cur) == last..cur

\* main calling wg.Wait() itself before it starts the collector.
AfterLoopWaits(w) == w = 0

\* What main waits for between the range loop and line 217: nothing.
AfterLoop(w) == TRUE

\* wg.Wait() returning while one lookupIP is still counted.
WaitReadyEarly(w) == w <= 1

\* wg.Wait() returns.
WaitReady(w) == w = 0

\* The branch of mainCtx.Done() printing what was collected so far.
CancelledOutputPartial(rs) == rs

\* What the branch of mainCtx.Done() hands to printResult: nothing.
CancelledOutput(rs) == << >>

\* What the branch of done hands to printResult: every collected Result.
DoneOutput(rs) == rs

\* Exit status with an empty selection treated as a failure.
ExitStatusEmptyFails(why) ==
    IF why \in {"invalid", "resolve"} \/ (why = "done" /\ totalIPs = 0)
    THEN 1 ELSE 0

\* Exit status with the cancelled branch leaving through os.Exit(1).
ExitStatusInterrupt(why) ==
    IF why \in {"invalid", "resolve", "cancelled"} THEN 1 ELSE 0

\* Exit status of ctx.Exit(1) and of returning from main.
ExitStatus(why) == IF why \in {"invalid", "resolve"} THEN 1 ELSE 0

-----------------------------------------------------------------------------
NoResult == [IP |-> 0, IsIPv6 |-> FALSE, PTR |-> Nil, IPInfo |-> Nil, Error |-> Nil]
NoRet == [names |-> Nil, err |-> Nil]
NoInfoRet == [info |-> Nil, err |-> Nil]
NoResp == [transport |-> "none", status |-> 0, body |-> "none"]

Init ==
    /\ target \in Targets
    /\ IPv4 \in BOOLEAN
    /\ IPv6 \in BOOLEAN
    /\ pcMain = "validate"
    /\ exitCode = -1
    /\ exitWhy = "running"
    /\ ips = << >>
    /\ idx = 1
    /\ totalIPs = 0
    /\ wg = 0
    /\ pcEnr = [i \in Slots |-> "none"]
    /\ result = [i \in Slots |-> NoResult]
    /\ pcPtr = [i \in Slots |-> "none"]
    /\ ptrRet = [i \in Slots |-> NoRet]
    /\ pcInfo = [i \in Slots |-> "none"]
    /\ resp = [i \in Slots |-> NoResp]
    /\ infoRet = [i \in Slots |-> NoInfoRet]
    /\ seenErr = [i \in Slots |-> Nil]
    /\ resultChan = << >>
    /\ chanClosed = FALSE
    /\ pcCloser = "none"
    /\ pcColl = "none"
    /\ results = << >>
    /\ doneClosed = FALSE
    /\ processed = 0
    /\ rendered = << >>
    /\ sigPending = FALSE
    /\ pcSig = "none"
    /\ cancelled = FALSE
    /\ sentAtCancel = -1
    /\ dnsCalls = 0
    /\ errLines = 0
    /\ snap = [i \in Slots |-> << >>]

Running == pcMain # "exited"

\* The Addresses of ips that line 210 selects.
SelectedSet == {i \in 1..Len(ips) : Selected(IPv4, IPv6, IsIPv6(ips[i]))}

\* The selected Addresses whose Result has been sent on resultChan.
SentSet == {i \in 1..Len(ips) : pcEnr[i] = "finished"}

\* The error printed and ctx.Exit(1) missing, main running on.
ExitMissing(why) ==
    /\ pcMain' = "launch"
    /\ exitWhy' = why
    /\ exitCode' = exitCode
    /\ errLines' = errLines + 1

\* Lines 171-172 and 202-203: the error is printed and ctx.Exit(1) ends
\* the process.
Exit(why) ==
    /\ pcMain' = "exited"
    /\ exitWhy' = why
    /\ exitCode' = ExitStatus(why)
    /\ errLines' = errLines + 1

-----------------------------------------------------------------------------
\* main, lines 170-173.
Validate ==
    /\ pcMain = "validate"
    /\ dnsCalls' = dnsCalls + HostLookups(target)
    /\ \E hostOk \in BOOLEAN :
          IF validateInput(target, hostOk) = Nil
          THEN /\ pcMain' = "setup"
               /\ UNCHANGED <<exitCode, exitWhy, errLines>>
          ELSE Exit("invalid")
    /\ UNCHANGED <<ips, idx, totalIPs, processed, rendered>>
    /\ UNCHANGED <<cliVars, wg, enrVars, chanVars, sigVars, snap>>

\* main, lines 175-187: the client, mainCtx, signal.Notify and its goroutine.
Setup ==
    /\ pcMain = "setup"
    /\ pcMain' = "resolve"
    /\ pcSig' = "wait"
    /\ UNCHANGED <<exitCode, exitWhy, ips, idx, totalIPs, processed, rendered>>
    /\ UNCHANGED <<cliVars, wg, enrVars, chanVars, sigPending, cancelled,
                   sentAtCancel>>
    /\ UNCHANGED auxVars

\* main, lines 189-205.
ResolveLiteral ==
    /\ pcMain = "resolve"
    /\ ParseIP(target) # Nil
    /\ ips' = ParseIP(target)
    /\ pcMain' = "launch"
    /\ UNCHANGED <<exitCode, exitWhy, idx, totalIPs, processed, rendered>>
    /\ UNCHANGED <<cliVars, wg, enrVars, chanVars, sigVars>>
    /\ UNCHANGED auxVars

ResolveName ==
    /\ pcMain = "resolve"
    /\ ParseIP(target) = Nil
    /\ dnsCalls' = dnsCalls + 1
    /\ \E ans \in LookupIPAnswers :
          IF ans # Nil
          THEN /\ ips' = ans
               /\ pcMain' = "launch"
               /\ UNCHANGED <<exitCode, exitWhy, errLines>>
          ELSE /\ Exit("resolve")
               /\ UNCHANGED ips
    /\ UNCHANGED <<idx, totalIPs, processed, rendered>>
    /\ UNCHANGED <<cliVars, wg, enrVars, chanVars, sigVars, snap>>

\* main, lines 208-215: one iteration of the range loop.  go lookupIP starts
\* the goroutine, which builds its Result and starts its two goroutines.
LaunchSelected ==
    /\ pcMain = "launch"
    /\ idx <= Len(ips)
    /\ Selected(IPv4, IPv6, IsIPv6(ips[idx]))
    /\ totalIPs' = totalIPs + 1
    /\ wg' = wg + 1
    /\ pcEnr' = [pcEnr EXCEPT ![idx] = "run"]
    /\ result' = [result EXCEPT ![idx] =
                     [NoResult EXCEPT !.IP = idx, !.IsIPv6 = IsIPv6(ips[idx])]]
    /\ pcPtr' = [pcPtr EXCEPT ![idx] = "call"]
    /\ pcInfo' = [pcInfo EXCEPT ![idx] = "call"]
    /\ idx' = idx + 1
    /\ UNCHANGED <<pcMain, exitCode, exitWhy, ips, processed, rendered>>
    /\ UNCHANGED <<cliVars, ptrRet, resp, infoRet, seenErr, chanVars, sigVars>>
    /\ UNCHANGED auxVars

LaunchSkip ==
    /\ pcMain = "launch"
    /\ idx <= Len(ips)
    /\ ~Selected(IPv4, IPv6, IsIPv6(ips[idx]))
    /\ idx' = idx + 1
    /\ UNCHANGED <<pcMain, exitCode, exitWhy, ips, totalIPs, processed, rendered>>
    /\ UNCHANGED <<cliVars, wg, enrVars, chanVars, sigVars>>
    /\ UNCHANGED auxVars

\* main, lines 217-234: the closer, the collector, the ticker.
Spawn ==
    /\ pcMain = "launch"
    /\ idx > Len(ips)
    /\ AfterLoop(wg)
    /\ pcCloser' = "wait"
    /\ pcColl' = "range"
    /\ pcMain' = "select"
    /\ UNCHANGED <<exitCode, exitWhy, ips, idx, totalIPs, processed, rendered>>
    /\ UNCHANGED <<cliVars, wg, enrVars, resultChan, chanClosed, results,
                   doneClosed, sigVars>>
    /\ UNCHANGED auxVars

\* main, lines 237-239; the deferred cancel() runs on return.
SelectCancelled ==
    /\ pcMain = "select"
    /\ cancelled
    /\ rendered' = CancelledOutput(results)
    /\ pcMain' = "exited"
    /\ exitWhy' = "cancelled"
    /\ exitCode' = ExitStatus("cancelled")
    /\ UNCHANGED <<ips, idx, totalIPs, processed>>
    /\ UNCHANGED <<cliVars, wg, enrVars, chanVars, sigVars>>
    /\ UNCHANGED auxVars

\* main, lines 240-245; the deferred cancel() runs on return.
SelectDone ==
    /\ pcMain = "select"
    /\ doneClosed
    /\ rendered' = DoneOutput(results)
    /\ pcMain' = "exited"
    /\ exitWhy' = "done"
    /\ exitCode' = ExitStatus("done")
    /\ cancelled' = TRUE
    /\ UNCHANGED <<ips, idx, totalIPs, processed>>
    /\ UNCHANGED <<cliVars, wg, enrVars, chanVars, sigPending, pcSig,
                   sentAtCancel>>
    /\ UNCHANGED auxVars

\* main, lines 246-248.
SelectTick ==
    /\ pcMain = "select"
    /\ processed' \in LenRead(processed, Len(results))
    /\ UNCHANGED <<pcMain, exitCode, exitWhy, ips, idx, totalIPs, rendered>>
    /\ UNCHANGED <<cliVars, wg, enrVars, chanVars, sigVars>>
    /\ UNCHANGED auxVars

-----------------------------------------------------------------------------
\* lookupIP, lines 103-111: LookupAddr returns and the goroutine writes
\* result.Error or result.PTR.
PtrReturn(i) ==
    /\ Running
    /\ pcPtr[i] = "call"
    /\ \E ok \in BOOLEAN :
          LET ret == LookupAddr(result[i].IP, ok) IN
          /\ ptrRet' = [ptrRet EXCEPT ![i] = ret]
          /\ result' = [result EXCEPT ![i] = PtrWrite(result[i], ret)]
    /\ pcPtr' = [pcPtr EXCEPT ![i] = "done"]
    /\ UNCHANGED <<pcEnr, pcInfo, resp, infoRet, seenErr>>
    /\ UNCHANGED <<cliVars, mainVars, wg, chanVars, sigVars>>
    /\ UNCHANGED auxVars

\* lookupIP, lines 113-117 and 122-124: getIPInfo returns; on success the
\* goroutine writes result.IPInfo, on failure it reads result.Error.
InfoReturn(i) ==
    /\ Running
    /\ pcInfo[i] = "call"
    /\ \E r \in Responses(cancelled) :
          LET ret == getIPInfo(result[i].IP, r) IN
          /\ resp' = [resp EXCEPT ![i] = r]
          /\ infoRet' = [infoRet EXCEPT ![i] = ret]
          /\ cancelled' = CtxAfterFetch(cancelled, r)
          /\ IF ret.err = Nil
             THEN /\ result' = [result EXCEPT ![i].IPInfo = ret.info]
                  /\ pcInfo' = [pcInfo EXCEPT ![i] = "done"]
                  /\ UNCHANGED seenErr
             ELSE /\ seenErr' = [seenErr EXCEPT ![i] = result[i].Error]
                  /\ pcInfo' = [pcInfo EXCEPT ![i] = "write"]
                  /\ UNCHANGED result
    /\ UNCHANGED <<pcEnr, pcPtr, ptrRet>>
    /\ UNCHANGED <<cliVars, mainVars, wg, chanVars, sigPending, pcSig,
                   sentAtCancel>>
    /\ UNCHANGED auxVars

\* lookupIP, lines 118 and 120: the goroutine writes result.Error.
InfoWrite(i) ==
    /\ Running
    /\ pcInfo[i] = "write"
    /\ result' = [result EXCEPT
                     ![i].Error = InfoErrWrite(seenErr[i], infoRet[i].err)]
    /\ pcInfo' = [pcInfo EXCEPT ![i] = "done"]
    /\ UNCHANGED <<pcEnr, pcPtr, ptrRet, resp, infoRet, seenErr>>
    /\ UNCHANGED <<cliVars, mainVars, wg, chanVars, sigVars>>
    /\ UNCHANGED auxVars

\* lookupIP, lines 127-129: wgInternal.Wait(), the send, and the deferred
\* wg.Done() of line 97 on return.
EnrSend(i) ==
    /\ Running
    /\ pcEnr[i] = "run"
    /\ WaitInternal(pcPtr[i], pcInfo[i])
    /\ Len(resultChan) < ChanCap
    /\ resultChan' = Append(resultChan, result[i])
    /\ wg' = wg - 1
    /\ pcEnr' = [pcEnr EXCEPT ![i] = "finished"]
    /\ UNCHANGED <<result, pcPtr, ptrRet, pcInfo, resp, infoRet, seenErr>>
    /\ UNCHANGED <<cliVars, mainVars, chanClosed, pcCloser, pcColl,
                   results, doneClosed, sigVars>>
    /\ UNCHANGED auxVars

\* main, lines 217-220.
Closer ==
    /\ Running
    /\ pcCloser = "wait"
    /\ WaitReady(wg)
    /\ chanClosed' = TRUE
    /\ pcCloser' = "done"
    /\ UNCHANGED <<resultChan, pcColl, results, doneClosed>>
    /\ UNCHANGED <<cliVars, mainVars, wg, enrVars, sigVars>>
    /\ UNCHANGED auxVars

\* main, lines 224-226: one iteration of the range over resultChan.
CollectorRecv ==
    /\ Running
    /\ pcColl = "range"
    /\ resultChan # << >>
    /\ results' = Append(results, Head(resultChan))
    /\ resultChan' = Tail(resultChan)
    /\ UNCHANGED <<chanClosed, pcCloser, pcColl, doneClosed>>
    /\ UNCHANGED <<cliVars, mainVars, wg, enrVars, sigVars>>
    /\ UNCHANGED auxVars

\* main, lines 224 and 227: the range ends on the closed, drained channel.
CollectorClose ==
    /\ Running
    /\ pcColl = "range"
    /\ RangeEnds(resultChan, chanClosed)
    /\ doneClosed' = TRUE
    /\ pcColl' = "done"
    /\ UNCHANGED <<resultChan, chanClosed, pcCloser, results>>
    /\ UNCHANGED <<cliVars, mainVars, wg, enrVars, sigVars>>
    /\ UNCHANGED auxVars

\* os.Interrupt or SIGTERM arrives and is buffered in sigChan (capacity 1).
\* A signal arriving after the goroutine of lines 183-187 has returned stays
\* in sigChan unread, with no effect on the run.
Interrupt ==
    /\ Running
    /\ pcSig = "wait"
    /\ ~sigPending
    /\ sigPending' = TRUE
    /\ UNCHANGED <<pcSig, cancelled, sentAtCancel>>
    /\ UNCHANGED <<cliVars, mainVars, wg, enrVars, chanVars>>
    /\ UNCHANGED auxVars

\* main, lines 183-187.
SigHandler ==
    /\ Running
    /\ pcSig = "wait"
    /\ sigPending
    /\ sigPending' = FALSE
    /\ cancelled' = TRUE
    /\ pcSig' = "done"
    /\ sentAtCancel' = Cardinality(SentSet)
    /\ UNCHANGED <<cliVars, mainVars, wg, enrVars, chanVars>>
    /\ UNCHANGED auxVars

Next ==
    \/ Validate
    \/ Setup
    \/ ResolveLiteral
    \/ ResolveName
    \/ LaunchSelected
    \/ LaunchSkip
    \/ Spawn
    \/ SelectCancelled
    \/ SelectDone
    \/ SelectTick
    \/ \E i \in Slots : PtrReturn(i)
    \/ \E i \in Slots : InfoReturn(i)
    \/ \E i \in Slots : InfoWrite(i)
    \/ \E i \in Slots : EnrSend(i)
    \/ Closer
    \/ CollectorRecv
    \/ CollectorClose
    \/ Interrupt
    \/ SigHandler

Spec == Init /\ [][Next]_vars

-----------------------------------------------------------------------------
\* One Address more than resultChan holds.
FullSlots == 1..(ChanCap + 1)

\* The runs in which line 210 selects no Address, from the state main is in
\* at line 207: the Target resolved, the signal goroutine waiting, holding a
\* signal, or having cancelled mainCtx already.
InitEmpty ==
    /\ target \in Targets
    /\ IPv4 \in BOOLEAN
    /\ IPv6 \in BOOLEAN
    /\ ips \in LookupIPAnswers \ {Nil}
    /\ ParseIP(target) # Nil => ips = ParseIP(target)
    /\ SelectedSet = {}
    /\ pcMain = "launch"
    /\ exitCode = -1
    /\ exitWhy = "running"
    /\ idx = 1
    /\ totalIPs = 0
    /\ wg = 0
    /\ pcEnr = [i \in FullSlots |-> "none"]
    /\ result = [i \in FullSlots |-> NoResult]
    /\ pcPtr = [i \in FullSlots |-> "none"]
    /\ ptrRet = [i \in FullSlots |-> NoRet]
    /\ pcInfo = [i \in FullSlots |-> "none"]
    /\ resp = [i \in FullSlots |-> NoResp]
    /\ infoRet = [i \in FullSlots |-> NoInfoRet]
    /\ seenErr = [i \in FullSlots |-> Nil]
    /\ resultChan = << >>
    /\ chanClosed = FALSE
    /\ pcCloser = "none"
    /\ pcColl = "none"
    /\ results = << >>
    /\ doneClosed = FALSE
    /\ processed = 0
    /\ rendered = << >>
    /\ \E sig \in {"waiting", "pending", "cancelled"} :
          /\ sigPending = (sig = "pending")
          /\ pcSig = IF sig = "cancelled" THEN "done" ELSE "wait"
          /\ cancelled = (sig = "cancelled")
          /\ sentAtCancel = IF sig = "cancelled" THEN 0 ELSE -1
    /\ dnsCalls = HostLookups(target) + HostLookups(target)
    /\ errLines = 0
    /\ snap = [i \in FullSlots |-> << >>]

-----------------------------------------------------------------------------
\* The runs with one Address more than resultChan holds, from the state in
\* which main has left the range loop and not yet started the collector,
\* the first ChanCap lookupIP goroutines have sent and filled the channel,
\* and the last one is still looking up.
OkResp == [transport |-> "ok", status |-> 200, body |-> "json"]

\* The Result of a lookupIP whose two lookups succeeded.
OkResult(i) ==
    [PtrWrite([NoResult EXCEPT !.IP = i], LookupAddr(i, TRUE))
        EXCEPT !.IPInfo = getIPInfo(i, OkResp).info]

InitFull ==
    /\ target = "name"
    /\ IPv4 = FALSE
    /\ IPv6 = FALSE
    /\ ips = [i \in FullSlots |-> FALSE]
    /\ pcMain = "launch"
    /\ exitCode = -1
    /\ exitWhy = "running"
    /\ idx = ChanCap + 2
    /\ totalIPs = ChanCap + 1
    /\ wg = 1
    /\ pcEnr = [i \in FullSlots |-> IF i <= ChanCap THEN "finished" ELSE "run"]
    /\ result = [i \in FullSlots |->
                    IF i <= ChanCap THEN OkResult(i)
                    ELSE [NoResult EXCEPT !.IP = i]]
    /\ pcPtr = [i \in FullSlots |-> IF i <= ChanCap THEN "done" ELSE "call"]
    /\ ptrRet = [i \in FullSlots |->
                    IF i <= ChanCap THEN LookupAddr(i, TRUE) ELSE NoRet]
    /\ pcInfo = [i \in FullSlots |-> IF i <= ChanCap THEN "done" ELSE "call"]
    /\ resp = [i \in FullSlots |-> IF i <= ChanCap THEN OkResp ELSE NoResp]
    /\ infoRet = [i \in FullSlots |->
                     IF i <= ChanCap THEN getIPInfo(i, OkResp) ELSE NoInfoRet]
    /\ seenErr = [i \in FullSlots |-> Nil]
    /\ resultChan = [i \in 1..ChanCap |-> OkResult(i)]
    /\ chanClosed = FALSE
    /\ pcCloser = "none"
    /\ pcColl = "none"
    /\ results = << >>
    /\ doneClosed = FALSE
    /\ processed = 0
    /\ rendered = << >>
    /\ sigPending = FALSE
    /\ pcSig = "wait"
    /\ cancelled = FALSE
    /\ sentAtCancel = -1
    /\ dnsCalls = HostLookups(target) + HostLookups(target)
    /\ errLines = 0
    /\ snap = [i \in FullSlots |-> << >>]

\* The tail of main, from line 207 on, in the runs of InitEmpty and of
\* InitFull.  The scheduler runs every goroutine that can take a step, every
\* network call returns, and select takes a case that stays ready; no signal
\* need ever arrive.
NextTail ==
    \/ LaunchSkip
    \/ Spawn
    \/ SelectCancelled
    \/ SelectDone
    \/ SelectTick
    \/ \E i \in FullSlots : PtrReturn(i)
    \/ \E i \in FullSlots : InfoReturn(i)
    \/ \E i \in FullSlots : InfoWrite(i)
    \/ \E i \in FullSlots : EnrSend(i)
    \/ Closer
    \/ CollectorRecv
    \/ CollectorClose
    \/ Interrupt
    \/ SigHandler

SpecTail ==
    /\ (InitEmpty \/ InitFull) /\ [][NextTail]_vars
    /\ WF_vars(LaunchSkip) /\ WF_vars(Spawn)
    /\ WF_vars(SelectCancelled) /\ WF_vars(SelectDone)
    /\ \A i \in FullSlots :
          /\ WF_vars(PtrReturn(i)) /\ WF_vars(InfoReturn(i))
          /\ WF_vars(InfoWrite(i)) /\ WF_vars(EnrSend(i))
    /\ WF_vars(Closer) /\ WF_vars(CollectorRecv) /\ WF_vars(CollectorClose)
    /\ WF_vars(SigHandler)

-----------------------------------------------------------------------------
\* lookupIP run twice on one Address.
TwiceSlots == {1, 2}

\* Two lookupIP goroutines launched for the same Address, as the launch loop
\* leaves them when the answer of net.LookupIP lists that Address twice;
\* main is in its select loop and no signal arrives.
InitTwice ==
    /\ target = "name"
    /\ IPv4 = FALSE
    /\ IPv6 = FALSE
    /\ \E fam \in BOOLEAN :
          /\ ips = [i \in TwiceSlots |-> fam]
          /\ result = [i \in TwiceSlots |->
                          [NoResult EXCEPT !.IP = 1, !.IsIPv6 = IsIPv6(fam)]]
    /\ pcMain = "select"
    /\ exitCode = -1
    /\ exitWhy = "running"
    /\ idx = Cardinality(TwiceSlots) + 1
    /\ totalIPs = Cardinality(TwiceSlots)
    /\ wg = Cardinality(TwiceSlots)
    /\ pcEnr = [i \in TwiceSlots |-> "run"]
    /\ pcPtr = [i \in TwiceSlots |-> "call"]
    /\ ptrRet = [i \in TwiceSlots |-> NoRet]
    /\ pcInfo = [i \in TwiceSlots |-> "call"]
    /\ resp = [i \in TwiceSlots |-> NoResp]
    /\ infoRet = [i \in TwiceSlots |-> NoInfoRet]
    /\ seenErr = [i \in TwiceSlots |-> Nil]
    /\ resultChan = << >>
    /\ chanClosed = FALSE
    /\ pcCloser = "wait"
    /\ pcColl = "range"
    /\ results = << >>
    /\ doneClosed = FALSE
    /\ processed = 0
    /\ rendered = << >>
    /\ sigPending = FALSE
    /\ pcSig = "wait"
    /\ cancelled = FALSE
    /\ sentAtCancel = -1
    /\ dnsCalls = HostLookups(target) + HostLookups(target)
    /\ errLines = 0
    /\ snap = [i \in TwiceSlots |-> << >>]

\* net.LookupAddr returns in run i what it returned in the other run.
TwicePtrReturn(i) ==
    /\ PtrReturn(i)
    /\ \A j \in TwiceSlots : pcPtr[j] = "done" => ptrRet'[i] = ptrRet[j]

\* httpClient.Do meets in run i what it met in the other run.
TwiceInfoReturn(i) ==
    /\ InfoReturn(i)
    /\ \A j \in TwiceSlots : pcInfo[j] # "call" => resp'[i] = resp[j]

NextTwice ==
    \/ \E i \in TwiceSlots : TwicePtrReturn(i)
    \/ \E i \in TwiceSlots : TwiceInfoReturn(i)
    \/ \E i \in TwiceSlots : InfoWrite(i)
    \/ \E i \in TwiceSlots : EnrSend(i)

SpecTwice == InitTwice /\ [][NextTwice]_vars

-----------------------------------------------------------------------------
\* The simplified variant (lines 253-475): main parses its arguments, starts
\* one goroutine per selected Address that appends the Result of the
\* sequential lookupIP to results, a goroutine closing done after wg.Wait,
\* and polls done.  IPv4 and IPv6 stand for ipv4Only and ipv6Only.

\* Largest number of Addresses net.LookupIP returns to the variant.
SimpleIPs == 2

SimpleSlots == 1..SimpleIPs

\* What net.LookupIP(input) can answer at line 437.
SimpleAnswers ==
    {Nil} \cup UNION {[1..n -> BOOLEAN] : n \in 1..SimpleIPs}

\* What http.Get can meet at line 321: no context, the default client.
GetResponses ==
    {[transport |-> "Client.Timeout exceeded", status |-> 0, body |-> "none"],
     [transport |-> "ok", status |-> 200, body |-> "json"],
     [transport |-> "ok", status |-> 429, body |-> "garbage"]}

\* Line 444.
SimpleSelected(ipv4Only, ipv6Only, isIPv6) ==
    \/ ipv4Only /\ ~isIPv6
    \/ ipv6Only /\ isIPv6
    \/ ~ipv4Only /\ ~ipv6Only

\* lookupIP of lines 334-356: the reverse lookup, then the fetch, the second
\* error composed with the first.
SimpleLookupIP(res, ok, r) ==
    LET afterPtr == PtrWrite(res, LookupAddr(res.IP, ok))
        ret      == getIPInfo(res.IP, r)
    IN  IF ret.err # Nil
        THEN [afterPtr EXCEPT !.Error = InfoErrWrite(afterPtr.Error, ret.err)]
        ELSE [afterPtr EXCEPT !.IPInfo = ret.info]

\* The state at line 425, the arguments parsed: at most one of -4 and -6.
InitSimple ==
    /\ target \in Targets
    /\ IPv4 \in BOOLEAN
    /\ IPv6 \in BOOLEAN
    /\ ~(IPv4 /\ IPv6)
    /\ pcMain = "parse"
    /\ exitCode = -1
    /\ exitWhy = "running"
    /\ ips = << >>
    /\ idx = 1
    /\ totalIPs = 0
    /\ wg = 0
    /\ pcEnr = [i \in SimpleSlots |-> "none"]
    /\ result = [i \in SimpleSlots |-> NoResult]
    /\ pcPtr = [i \in SimpleSlots |-> "none"]
    /\ ptrRet = [i \in SimpleSlots |-> NoRet]
    /\ pcInfo = [i \in SimpleSlots |-> "none"]
    /\ resp = [i \in SimpleSlots |-> NoResp]
    /\ infoRet = [i \in SimpleSlots |-> NoInfoRet]
    /\ seenErr = [i \in SimpleSlots |-> Nil]
    /\ resultChan = << >>
    /\ chanClosed = FALSE
    /\ pcCloser = "none"
    /\ pcColl = "none"
    /\ results = << >>
    /\ doneClosed = FALSE
    /\ processed = 0
    /\ rendered = << >>
    /\ sigPending = FALSE
    /\ pcSig = "none"
    /\ cancelled = FALSE
    /\ sentAtCancel = -1
    /\ dnsCalls = 0
    /\ errLines = 0
    /\ snap = [i \in SimpleSlots |-> << >>]

\* What the variant never touches.
simpleIdle == <<pcPtr, ptrRet, pcInfo, resp, infoRet, seenErr, resultChan,
                chanClosed, pcColl, processed, totalIPs, sigVars>>

\* Lines 425-435 and 455-459: the Target is a literal address; its
\* goroutine is started whatever ipv4Only and ipv6Only say, then the
\* goroutine waiting on wg.
SimpleLiteral ==
    /\ pcMain = "parse"
    /\ ParseIP(target) # Nil
    /\ ips' = ParseIP(target)
    /\ wg' = wg + 1
    /\ pcEnr' = [pcEnr EXCEPT ![1] = "lookup"]
    /\ result' = [result EXCEPT
                     ![1] = [NoResult EXCEPT !.IP = 1,
                                             !.IsIPv6 = IsIPv6(ips'[1])]]
    /\ pcCloser' = "wait"
    /\ pcMain' = "select"
    /\ UNCHANGED <<cliVars, exitCode, exitWhy, idx, rendered, results,
                   doneClosed, auxVars, simpleIdle>>

\* Lines 437-441.
SimpleResolve ==
    /\ pcMain = "parse"
    /\ ParseIP(target) = Nil
    /\ dnsCalls' = dnsCalls + 1
    /\ \E answer \in SimpleAnswers :
          IF answer = Nil
          THEN /\ Exit("resolve")
               /\ UNCHANGED ips
          ELSE /\ ips' = answer
               /\ pcMain' = "launch"
               /\ UNCHANGED <<exitCode, exitWhy, errLines>>
    /\ UNCHANGED <<cliVars, idx, wg, pcEnr, result, pcCloser, rendered,
                   results, doneClosed, snap, simpleIdle>>

\* Lines 443-451, an Address line 444 selects.
SimpleLaunchSelected ==
    /\ pcMain = "launch"
    /\ idx <= Len(ips)
    /\ SimpleSelected(IPv4, IPv6, IsIPv6(ips[idx]))
    /\ wg' = wg + 1
    /\ pcEnr' = [pcEnr EXCEPT ![idx] = "lookup"]
    /\ result' = [result EXCEPT
                     ![idx] = [NoResult EXCEPT !.IP = idx,
                                               !.IsIPv6 = IsIPv6(ips[idx])]]
    /\ idx' = idx + 1
    /\ UNCHANGED <<cliVars, pcMain, exitCode, exitWhy, ips, pcCloser,
                   rendered, results, doneClosed, auxVars, simpleIdle>>

\* Lines 443-444, an Address line 444 does not select.
SimpleLaunchSkip ==
    /\ pcMain = "launch"
    /\ idx <= Len(ips)
    /\ ~SimpleSelected(IPv4, IPv6, IsIPv6(ips[idx]))
    /\ idx' = idx + 1
    /\ UNCHANGED <<cliVars, pcMain, exitCode, exitWhy, ips, wg, pcEnr,
                   result, pcCloser, rendered, results, doneClosed, auxVars,
                   simpleIdle>>

\* Lines 455-461.
SimpleSpawn ==
    /\ pcMain = "launch"
    /\ idx > Len(ips)
    /\ pcCloser' = "wait"
    /\ pcMain' = "select"
    /\ UNCHANGED <<cliVars, exitCode, exitWhy, ips, idx, wg, pcEnr, result,
                   rendered, results, doneClosed, auxVars, simpleIdle>>

\* Lines 433 and 448: lookupIP returns and the goroutine reads results, the
\* first operand of append.
SimpleLookup(i) ==
    /\ Running
    /\ pcEnr[i] = "lookup"
    /\ \E ok \in BOOLEAN : \E r \in GetResponses :
          result' = [result EXCEPT ![i] = SimpleLookupIP(result[i], ok, r)]
    /\ snap' = [snap EXCEPT ![i] = results]
    /\ pcEnr' = [pcEnr EXCEPT ![i] = "append"]
    /\ UNCHANGED <<cliVars, pcMain, exitCode, exitWhy, ips, idx, wg,
                   pcCloser, rendered, results, doneClosed, dnsCalls,
                   errLines, simpleIdle>>

\* Lines 433 and 448: the goroutine assigns to results what append made of
\* the value it read, and wg.Done() runs on return.
SimpleAppend(i) ==
    /\ Running
    /\ pcEnr[i] = "append"
    /\ results' = Append(snap[i], result[i])
    /\ wg' = wg - 1
    /\ pcEnr' = [pcEnr EXCEPT ![i] = "finished"]
    /\ UNCHANGED <<cliVars, pcMain, exitCode, exitWhy, ips, idx, result,
                   pcCloser, rendered, doneClosed, auxVars, simpleIdle>>

\* Lines 456-459.
SimpleWaiter ==
    /\ Running
    /\ pcCloser = "wait"
    /\ WaitReady(wg)
    /\ doneClosed' = TRUE
    /\ pcCloser' = "done"
    /\ UNCHANGED <<cliVars, pcMain, exitCode, exitWhy, ips, idx, wg, pcEnr,
                   result, rendered, results, auxVars, simpleIdle>>

\* Lines 464-469.  The default branch of lines 470-472 prints a dot and
\* changes nothing.
SimpleSelectDone ==
    /\ pcMain = "select"
    /\ doneClosed
    /\ rendered' = DoneOutput(results)
    /\ pcMain' = "exited"
    /\ exitWhy' = "done"
    /\ exitCode' = ExitStatus("done")
    /\ UNCHANGED <<cliVars, ips, idx, wg, pcEnr, result, pcCloser, results,
                   doneClosed, auxVars, simpleIdle>>

NextSimple ==
    \/ SimpleLiteral
    \/ SimpleResolve
    \/ SimpleLaunchSelected
    \/ SimpleLaunchSkip
    \/ SimpleSpawn
    \/ \E i \in SimpleSlots : SimpleLookup(i)
    \/ \E i \in SimpleSlots : SimpleAppend(i)
    \/ SimpleWaiter
    \/ SimpleSelectDone

SpecSimple == InitSimple /\ [][NextSimple]_vars

\* The goroutines the variant started.
SimpleLaunched == {i \in 1..Len(ips) : pcEnr[i] # "none"}

-----------------------------------------------------------------------------
\* Vocabulary of the properties.

\* lookupIP of Address i has sent its Result.
Emitted(i) == pcEnr[i] = "finished"

\* Every Result that has left an Enricher, in the order of the channel.
Handed == results \o resultChan

CountOf(seq, i) == Cardinality({k \in 1..Len(seq) : seq[k].IP = i})

\* sub is a contiguous part of seq.
Contains(seq, sub) ==
    \E k \in 0..(Len(seq) - Len(sub)) :
        SubSeq(seq, k + 1, k + Len(sub)) = sub

PtrFailed(i) == pcPtr[i] = "done" /\ ptrRet[i].err # Nil
PtrOk(i) == pcPtr[i] = "done" /\ ptrRet[i].err = Nil
InfoFailed(i) == pcInfo[i] = "done" /\ infoRet[i].err # Nil
InfoOk(i) == pcInfo[i] = "done" /\ infoRet[i].err = Nil

PtrMsg(i) == <<"error looking up PTR records: ">> \o ptrRet[i].err
InfoMsg(i) == <<"error fetching IP info: ">> \o infoRet[i].err

Cancellation == <<"context canceled">>
TimedOut == <<"Client.Timeout exceeded">>

-----------------------------------------------------------------------------
\* C1: every selected Address yields exactly one Result: an Address has one
\* Result on the channel or in results once its lookupIP has sent and none
\* before, never two, and when done is closed results holds exactly one
\* Result per selected Address, totalIPs in all.
C1_OneResultPerAddress ==
    /\ \A i \in Slots :
          CountOf(Handed, i) = IF Emitted(i) THEN 1 ELSE 0
    /\ doneClosed =>
          /\ Len(results) = totalIPs
          /\ totalIPs = Cardinality(SelectedSet)
          /\ \A i \in SelectedSet : CountOf(results, i) = 1

C1_Witness ==
    /\ doneClosed
    /\ sentAtCancel = -1
    /\ totalIPs >= 1
    /\ Len(results) = totalIPs

\* C2: when both sub-operations of an Enricher fail, the emitted Result's
\* error is the reverse-lookup message followed by the metadata message.
C2_BothFailuresKept ==
    \A i \in Slots :
        (Emitted(i) /\ PtrFailed(i) /\ InfoFailed(i)) =>
            result[i].Error = PtrMsg(i) \o <<"; ">> \o InfoMsg(i)

\* C3: when exactly one sub-operation fails the emitted Result keeps the
\* other one's data and its error is the message of the failed one alone;
\* the Result handed over is the one built.
C3_PartialFailure ==
    /\ \A i \in Slots :
          Emitted(i) =>
             /\ (PtrFailed(i) /\ InfoOk(i)) =>
                   /\ result[i].IPInfo = infoRet[i].info
                   /\ result[i].IPInfo # Nil
                   /\ result[i].PTR = Nil
                   /\ result[i].Error = PtrMsg(i)
             /\ (PtrOk(i) /\ InfoFailed(i)) =>
                   /\ result[i].PTR = ptrRet[i].names
                   /\ result[i].PTR # Nil
                   /\ result[i].IPInfo = Nil
                   /\ result[i].Error = InfoMsg(i)
    /\ \A k \in 1..Len(Handed) : Handed[k] = result[Handed[k].IP]

C3_Witness ==
    \E i \in Slots :
        /\ Emitted(i) /\ PtrFailed(i) /\ InfoOk(i)
        /\ result[i].IPInfo # Nil
        /\ CountOf(results, i) = 1

\* C4 as stated: a run whose cancel() ran before every Result was sent
\* ends with nothing rendered.
C4_NothingRenderedAfterCancel ==
    (pcMain = "exited" /\ sentAtCancel >= 0 /\ sentAtCancel < totalIPs) =>
        rendered = << >>

\* C4 as amended: no partial report.  The cancelled branch renders
\* nothing, and whatever is rendered is the whole of results, one Result
\* per selected Address, rendered by the done branch.
C4_NoPartialReport ==
    /\ exitWhy = "cancelled" => rendered = << >>
    /\ exitWhy = "done" =>
          /\ rendered = results
          /\ Len(rendered) = totalIPs
          /\ doneClosed
    /\ pcMain # "exited" => rendered = << >>

C4_Witness ==
    /\ pcMain = "exited"
    /\ exitWhy = "cancelled"
    /\ sentAtCancel >= 0
    /\ sentAtCancel < totalIPs
    /\ results # << >>
    /\ rendered = << >>

\* C5 as stated: exit status 1 on validation failure, resolution failure
\* and interrupt, 0 only on normal completion.
C5_ExitOneOnInterrupt ==
    pcMain = "exited" =>
        /\ exitWhy \in {"invalid", "resolve", "cancelled"} => exitCode = 1
        /\ exitCode = 0 => exitWhy = "done"

\* C5 as amended: exit status 1 on validation failure and on resolution
\* failure, 0 on normal completion and on the cancelled path.
C5_ExitCodes ==
    /\ pcMain = "exited" =>
          /\ exitWhy \in {"invalid", "resolve"} => exitCode = 1
          /\ exitWhy \in {"done", "cancelled"} => exitCode = 0
          /\ exitWhy \in {"invalid", "resolve", "done", "cancelled"}
    /\ pcMain # "exited" => exitCode = -1

C5_Witness ==
    /\ pcMain = "exited"
    /\ exitWhy = "cancelled"
    /\ sentAtCancel >= 0
    /\ exitCode = 0

\* C6 as stated: with mainCtx cancelled, a reverse lookup in flight ends
\* with a cancellation error, as a metadata fetch in flight does.
C6_AllSubOpsObserveCancel ==
    [][\A i \in Slots :
          /\ (cancelled /\ pcPtr[i] = "call" /\ pcPtr'[i] # "call") =>
                ptrRet'[i].err = Cancellation
          /\ (cancelled /\ pcInfo[i] = "call" /\ pcInfo'[i] # "call") =>
                infoRet'[i].err = Cancellation]_vars

\* C6 as amended: with mainCtx cancelled, a metadata fetch in flight ends
\* with a cancellation error and no record; a reverse lookup is not bound
\* to the context and ends as it would have.
C6_FetchObservesCancel ==
    [][\A i \in Slots :
          (cancelled /\ pcInfo[i] = "call" /\ pcInfo'[i] # "call") =>
              /\ infoRet'[i].err = Cancellation
              /\ infoRet'[i].info = Nil
              /\ result'[i].IPInfo = Nil]_vars

C6_Witness ==
    \E i \in Slots :
        /\ sentAtCancel >= 0
        /\ pcInfo[i] = "done"
        /\ infoRet[i].err = Cancellation
        /\ PtrOk(i)

\* C7 as stated: getIPInfo returns an error and no record for every
\* response that is not 2xx or whose body is malformed, and a record only
\* for a 2xx response with a well-formed body.
C7_Non2xxIsError ==
    \A i \in Slots :
        pcInfo[i] \in {"write", "done"} =>
            LET good == /\ resp[i].status >= 200
                        /\ resp[i].status <= 299
                        /\ resp[i].body = "json"
            IN  /\ ~good => (infoRet[i].err # Nil /\ infoRet[i].info = Nil)
                /\ infoRet[i].info # Nil => good

\* C7 as amended: getIPInfo returns an error and no record when the request
\* fails or the body is malformed, and a record and no error for every
\* response with a well-formed body, whatever its status.
C7_DecodeDecides ==
    \A i \in Slots :
        pcInfo[i] \in {"write", "done"} =>
            LET decoded == resp[i].transport = "ok" /\ resp[i].body = "json"
            IN  /\ decoded => (infoRet[i].info # Nil /\ infoRet[i].err = Nil)
                /\ ~decoded => (infoRet[i].info = Nil /\ infoRet[i].err # Nil)

C7_Witness ==
    \E i \in Slots :
        /\ pcInfo[i] = "done"
        /\ resp[i].transport = "ok"
        /\ resp[i].status = 429
        /\ resp[i].body = "json"
        /\ infoRet[i].info # Nil
        /\ result[i].IPInfo # Nil

\* C8: an Address the loop has passed was launched iff the filter asks for
\* its family or asks for neither; with exactly one of the two flags set
\* every Result handed over is of that family, and with neither set every
\* resolved Address is launched.
C8_Filter ==
    /\ \A i \in 1..Len(ips) :
          i < idx =>
             (pcEnr[i] # "none" <=>
                 \/ (IPv4 /\ ~ips[i])
                 \/ (IPv6 /\ ips[i])
                 \/ (~IPv4 /\ ~IPv6))
    /\ \A i \in Slots : (i > Len(ips) \/ i >= idx) => pcEnr[i] = "none"
    /\ \A k \in 1..Len(Handed) :
          /\ Handed[k].IsIPv6 = ips[Handed[k].IP]
          /\ (IPv4 /\ ~IPv6) => ~Handed[k].IsIPv6
          /\ (IPv6 /\ ~IPv4) => Handed[k].IsIPv6
    /\ (~IPv4 /\ ~IPv6 /\ pcMain \in {"select", "exited"} /\ ips # << >>) =>
          /\ totalIPs = Len(ips)
          /\ \A i \in 1..Len(ips) : pcEnr[i] # "none"

C8_Witness ==
    /\ ~IPv4 /\ ~IPv6
    /\ target = "name"
    /\ pcMain = "select"
    /\ Len(ips) = MaxIPs
    /\ Len(results) = MaxIPs

\* C9: the failure of a sub-operation is always attached to the Result of
\* its own Address: every message of a failed sub-operation is part of the
\* error of the Result handed over.
C9_FailureAttached ==
    \A i \in Slots :
        Emitted(i) =>
            /\ PtrFailed(i) => Contains(result[i].Error, PtrMsg(i))
            /\ InfoFailed(i) => Contains(result[i].Error, InfoMsg(i))

\* C10 as stated: the expiry of the configured timeout cancels mainCtx.
C10_TimeoutCancels ==
    [][\A i \in Slots :
          (pcInfo[i] = "call" /\ pcInfo'[i] # "call"
              /\ infoRet'[i].err = TimedOut) => cancelled']_vars

\* C10 as amended: while main runs, mainCtx becomes cancelled only by the
\* signal goroutine taking a signal from sigChan; the expiry of the
\* configured timeout fails that one fetch and leaves mainCtx as it was.
C10_OnlySignalCancels ==
    [][/\ (~cancelled /\ cancelled' /\ pcMain' # "exited") =>
             (sigPending /\ pcSig = "wait" /\ pcSig' = "done")
       /\ (sigPending /\ pcSig = "wait" /\ pcSig' = "done") => cancelled'
       /\ \A i \in Slots :
             (pcInfo[i] = "call" /\ pcInfo'[i] # "call"
                 /\ infoRet'[i].err = TimedOut) =>
                    cancelled' = cancelled]_vars

C10_Witness ==
    \E i \in Slots :
        /\ infoRet[i].err = TimedOut
        /\ pcInfo[i] = "done"
        /\ ~cancelled
        /\ pcMain = "select"

-----------------------------------------------------------------------------
\* C11: two runs of lookupIP on one Address whose reverse lookups returned
\* the same and whose metadata fetches met the same send equal Results.
C11_SameResultTwice ==
    \A i \in TwiceSlots : \A j \in TwiceSlots :
        (Emitted(i) /\ Emitted(j)) => result[i] = result[j]

\* C12: a run that fails validation or resolution ends there: the process
\* has exited with status 1 after one error line, no lookupIP was launched,
\* neither the closer nor the collector was started, and nothing was sent,
\* collected or rendered.
C12_FatalBeforeWork ==
    /\ exitWhy \in {"invalid", "resolve"} =>
          /\ pcMain = "exited"
          /\ exitCode = 1
          /\ errLines = 1
          /\ totalIPs = 0 /\ wg = 0
          /\ \A i \in Slots :
                pcEnr[i] = "none" /\ pcPtr[i] = "none" /\ pcInfo[i] = "none"
          /\ pcCloser = "none" /\ pcColl = "none"
          /\ resultChan = << >> /\ results = << >> /\ rendered = << >>
    /\ errLines > 0 => exitWhy \in {"invalid", "resolve"}

C12_Witness ==
    /\ pcMain = "exited"
    /\ exitWhy = "resolve"
    /\ target = "name"
    /\ errLines = 1
    /\ dnsCalls > 1

\* C13: for a literal Target no net.LookupHost and no net.LookupIP call is
\* made, and once resolved the candidate list is that one Address.
C13_LiteralNoLookup ==
    ParseIP(target) # Nil =>
        /\ dnsCalls = 0
        /\ pcMain \in {"launch", "select", "exited"} =>
              /\ Len(ips) = 1
              /\ ips[1] = (target = "ip6")
        /\ exitWhy \notin {"invalid", "resolve"}

C13_Witness ==
    /\ target = "ip6"
    /\ pcMain = "select"
    /\ Len(ips) = 1
    /\ dnsCalls = 0

\* C14: when the filter selects no Address no lookupIP is launched, the
\* run is no failure and renders nothing, done is closed unless the run is
\* cancelled first, and the run ends with exit status 0, through the done
\* branch when no signal came.
C14_EmptySelection ==
    /\ [](((pcMain \in {"select", "exited"}) /\ ips # << >> /\ SelectedSet = {}) =>
            /\ totalIPs = 0
            /\ \A i \in Slots : pcEnr[i] = "none"
            /\ rendered = << >>
            /\ exitWhy \in {"running", "done", "cancelled"}
            /\ (pcMain = "exited" => exitCode = 0)
            /\ (pcMain = "exited" /\ sentAtCancel = -1 => exitWhy = "done"))
    /\ (SelectedSet = {} ~>
            (pcMain = "exited" /\ exitCode = 0 /\ rendered = << >>))
    /\ (SelectedSet = {} ~> (doneClosed \/ cancelled))

C14_Witness ==
    /\ pcMain = "exited"
    /\ exitWhy = "done"
    /\ target = "name"
    /\ ips # << >>
    /\ SelectedSet = {}
    /\ doneClosed
    /\ sentAtCancel = -1
    /\ exitCode = 0

\* C15: a Result is sent only when both goroutines of its lookupIP are
\* done, and from then on neither the Result built nor any Result handed
\* over changes.
C15_SentIsFinal ==
    [][/\ \A i \in Slots :
             /\ Emitted(i)' => (pcPtr'[i] = "done" /\ pcInfo'[i] = "done")
             /\ Emitted(i) => (result'[i] = result[i] /\ Emitted(i)')
       /\ \A k \in 1..Len(Handed) :
             Len(Handed') >= k /\ Handed'[k] = Handed[k]]_vars

C15_Witness ==
    \E i \in Slots :
        /\ Emitted(i)
        /\ PtrFailed(i) /\ InfoFailed(i)
        /\ CountOf(resultChan, i) = 1

\* What holds once resultChan, and once done, is closed.
ClosedInv ==
    /\ chanClosed =>
          /\ wg = 0 /\ pcCloser = "done"
          /\ \A i \in Slots : pcEnr[i] \in {"none", "finished"}
    /\ doneClosed =>
          /\ chanClosed /\ pcColl = "done"
          /\ resultChan = << >>
          /\ Len(results) = totalIPs

\* C16: resultChan is closed once, by the closer, after every launched
\* lookupIP has sent, and is never sent on again; done is closed once, by
\* the collector, after it drained the closed channel; once done is closed
\* no Result is sent, received or appended.
C16_DoneOnceAndLast ==
    [][/\ ClosedInv'
       /\ (~chanClosed /\ chanClosed') => (pcCloser = "wait" /\ pcCloser' = "done")
       /\ chanClosed =>
             /\ chanClosed' /\ pcCloser' = "done"
             /\ Len(resultChan') <= Len(resultChan)
       /\ (~doneClosed /\ doneClosed') => (pcColl = "range" /\ pcColl' = "done")
       /\ doneClosed =>
             /\ doneClosed' /\ pcColl' = "done"
             /\ results' = results
             /\ resultChan' = resultChan]_vars

C16_Witness ==
    /\ doneClosed /\ chanClosed
    /\ pcMain = "select"
    /\ totalIPs = MaxIPs
    /\ processed < totalIPs
    /\ \A i \in Slots : Emitted(i)

\* C17: with more selected Addresses than resultChan holds, every lookupIP
\* gets to send its Result unless the process ends first, and the run ends,
\* either having rendered every Result or through the cancelled branch.
C17_NoHang ==
    /\ (\E i \in FullSlots : pcEnr[i] = "run") ~>
          \/ \A i \in FullSlots : pcEnr[i] \in {"none", "finished"}
          \/ pcMain = "exited"
    /\ <>(/\ pcMain = "exited"
          /\ \/ exitWhy = "cancelled"
             \/ exitWhy = "done" /\ Len(rendered) = totalIPs)

C17_Witness ==
    /\ pcMain = "exited"
    /\ exitWhy = "done"
    /\ totalIPs > ChanCap
    /\ Len(rendered) = totalIPs
    /\ sentAtCancel = -1

\* C18: results changes only by the collector appending the Result it takes
\* from resultChan; the ticker branch changes processed alone, to a value
\* that is not smaller than before and not larger than totalIPs; a step of
\* a lookupIP changes neither.
C18_SingleWriter ==
    [][/\ results' # results =>
             /\ pcColl = "range" /\ resultChan # << >>
             /\ results' = Append(results, Head(resultChan))
             /\ resultChan' = Tail(resultChan)
             /\ processed' = processed
       /\ processed' >= processed
       /\ processed' <= totalIPs'
       /\ processed' <= Len(results')
       /\ processed' # processed => (pcMain = "select" /\ results' = results)
       /\ (pcEnr' # pcEnr \/ result' # result) =>
             (results' = results /\ processed' = processed)]_vars

C18_Witness ==
    /\ pcMain = "select"
    /\ totalIPs >= 1
    /\ processed = totalIPs
    /\ ~doneClosed

\* C19: when the simplified variant ends through its done branch it has
\* rendered exactly one Result for each Address it started a goroutine for.
C19_SimpleOneResultEach ==
    (pcMain = "exited" /\ exitWhy = "done") =>
        /\ Len(rendered) = Cardinality(SimpleLaunched)
        /\ \A i \in SimpleLaunched : CountOf(rendered, i) = 1

\* C20: the simplified variant starts a goroutine for exactly the Addresses
\* the pipeline selects at line 210 for the same Target, flags and
\* candidate list.
C20_SameLaunchSet ==
    (pcMain \in {"select", "exited"} /\ ips # << >>) =>
        SimpleLaunched = SelectedSet

====
